---- MODULE Spec2Model ----
(***************************************************************************)
(* Katalog Grafik (streamlit_app.py): the uploader page, the report page   *)
(* and the aspect-ratio classifier, over a model of the Google Drive       *)
(* folder that holds the catalog file, its backups and the image blobs.    *)
(*                                                                         *)
(* Drive semantics used by the model (Drive API v3):                       *)
(*   - files().create always adds a NEW file or folder, also when one of   *)
(*     the same name exists, so a name may be held by several files;       *)
(*   - files().list returns the matches in an unspecified order, so        *)
(*     items[0] is any one of them;                                        *)
(*   - files().update replaces the content of one file id;                 *)
(*   - every call may raise (transient or not).                            *)
(* One step of a session is one Drive call together with the Python code   *)
(* that runs up to the next call, exception handlers included.             *)
(***************************************************************************)
EXTENDS Integers, Sequences, FiniteSets, TLC

VARIABLES
    secrets,     \* st.secrets: the configured uploader password(s)
    folders,     \* Drive: how many folders are named "images" / "backups"
    blobs,       \* Drive: stored image files, index = drive_file_id
    catalog,     \* Drive: files named graphics_data.json, index = file id
    backups,     \* Drive: contents stored in the "backups" folder
    loc,         \* per session: session_state and the handler's locals
    view,        \* per session: what report_page rendered last
    clicks,      \* accepted 'Dodaj grafikę' clicks still allowed (bound)
    faults,      \* Drive call failures still allowed (bound)
    ratio_in,    \* calculate_ratio: <<width, height>> under classification
    ratio_out    \* calculate_ratio: the label returned for ratio_in

vars == <<secrets, folders, blobs, catalog, backups, loc, view, clicks, faults,
          ratio_in, ratio_out>>

drive == <<folders, blobs, catalog, backups>>

----------------------------------------------------------------------------
(* Bounds of the model *)

MaxClicks == 2
MaxFaults == 1
MaxClicksSolo == 2
MaxFaultsSolo == 3
MaxDim == 12
MaxCatalog == 2

Sessions == {"s1", "s2"}

\* Uploaded files: two valid images (distinct bytes) and one file PIL cannot open.
Images == {"imgA", "imgB"}
BadImages == {"broken"}

\* Messages of exceptions a Drive call raises: one that retry_api_call takes for
\* transient, one that it does not.
Errors == {"timeout", "forbidden"}

----------------------------------------------------------------------------
(* Small helpers *)

Range(seq) == {seq[i] : i \in 1..Len(seq)}

abs(x) == IF x < 0 THEN -x ELSE x

None == <<>>

Some(x) == <<x>>

----------------------------------------------------------------------------
(* calculate_ratio *)

\* The table's values are decimals with at most four places: held times RatioScale.
RatioScale == 10000

standard_ratios ==
    << [label |-> "1:1",   value |-> 10000],
       [label |-> "5:4",   value |-> 12500],
       [label |-> "4:3",   value |-> 13330],
       [label |-> "3:2",   value |-> 15000],
       [label |-> "16:10", value |-> 16000],
       [label |-> "16:9",  value |-> 17780],
       [label |-> "2:1",   value |-> 20000],
       [label |-> "4:5",   value |-> 8000],
       [label |-> "3:4",   value |-> 7500],
       [label |-> "2:3",   value |-> 6670],
       [label |-> "10:16", value |-> 6250],
       [label |-> "9:16",  value |-> 5625],
       [label |-> "1:2",   value |-> 5000] >>

\* abs(x[1] - actual_ratio), times RatioScale * height (height > 0).
ratio_distance(i, width, height) ==
    abs(standard_ratios[i].value * height - RatioScale * width)

\* A later entry replaces the best so far only when strictly closer (Python's min).
closer_last_tie(i, best, width, height) ==
    ratio_distance(i, width, height) <= ratio_distance(best, width, height)

closer(i, best, width, height) ==
    ratio_distance(i, width, height) < ratio_distance(best, width, height)

RECURSIVE min_index(_, _, _, _)
min_index(i, best, width, height) ==
    IF i > Len(standard_ratios) THEN best
    ELSE min_index(i + 1,
                   IF closer(i, best, width, height) THEN i ELSE best,
                   width, height)

calculate_ratio(width, height) ==
    standard_ratios[min_index(2, 1, width, height)].label

----------------------------------------------------------------------------
(* Uploaded files and records *)

\* The uploaded file: its name, hashlib.md5 of its bytes, and PIL's image.size.
\* Distinct bytes have distinct digests here (no MD5 collision in the model).
UploadedFile(img) ==
    CASE img = "imgA" -> [name |-> "a.png", md5 |-> "hashA", size |-> <<9, 8>>]
      [] img = "imgB" -> [name |-> "b.jpg", md5 |-> "hashB", size |-> <<12, 7>>]
      [] OTHER        -> [name |-> "x.gif", md5 |-> "hashX", size |-> <<1, 1>>]

\* The business form (numer_akcji, selectboxes, number inputs). ctr and roas are
\* held in hundredths (step=0.01).
BlankBusiness ==
    [numer_akcji |-> "", rynek |-> "medica", typ_odbiorcy |-> "cold",
     typ_kampanii |-> "sales", ctr |-> 0, roas |-> 0]

Business1 ==
    [numer_akcji |-> "A1", rynek |-> "medica", typ_odbiorcy |-> "cold",
     typ_kampanii |-> "sales", ctr |-> 150, roas |-> 200]

Business2 ==
    [numer_akcji |-> "A2", rynek |-> "biznes", typ_odbiorcy |-> "warm",
     typ_kampanii |-> "sales", ctr |-> 300, roas |-> 100]

\* What the form may hold when 'Dodaj grafikę' is clicked, for one session
\* working alone: complete forms, a form with no file, a form with no
\* numer_akcji.
Forms ==
    [uploaded_file : Images \cup BadImages, business : {Business1, Business2}]
    \cup { [uploaded_file |-> "", business |-> Business1] }
    \cup { [uploaded_file |-> img, business |-> BlankBusiness] : img \in Images }

\* The same for sessions working side by side: every image, one set of business
\* values, and a form with no file.
ConcurrentForms ==
    [uploaded_file : Images, business : {Business1}]
    \cup { [uploaded_file |-> "", business |-> Business1] }

\* The dict process_uploaded_image returns, with "business" attached by
\* uploader_page. upload_date is datetime.now(): a logical clock, the number of
\* blobs stored so far.
GraphicRecord(img, drive_file_id, now, business) ==
    [id            |-> UploadedFile(img).md5,
     filename      |-> UploadedFile(img).name,
     drive_file_id |-> drive_file_id,
     upload_date   |-> now,
     ratio         |-> calculate_ratio(UploadedFile(img).size[1],
                                       UploadedFile(img).size[2]),
     business      |-> business]

----------------------------------------------------------------------------
(* The catalog file's bytes, json.dumps and json.loads *)

\* A stored content is the bytes of one file. kind says what the bytes are:
\*   "catalog"      json of {"graphics": [...]}, the list in graphics
\*   "empty"        zero bytes
\*   "undecodable"  bytes that are not UTF-8
\*   "invalid_json" UTF-8 text that is not JSON
\*   "not_catalog"  well-formed JSON with no "graphics" member (e.g. [] or {})
Content(kind, graphics) == [kind |-> kind, graphics |-> graphics]

CorruptKinds == {"empty", "undecodable", "invalid_json", "not_catalog"}

\* json.dumps(data, ensure_ascii=False, indent=2).encode('utf-8')
json_dumps(data) == Content("catalog", data.graphics)

\* A Python value load_json_from_drive returns: a dict with a "graphics" list
\* (is_catalog), or any other JSON value.
EmptyCatalog == [is_catalog |-> TRUE, graphics |-> <<>>]

\* The mutant: an exception of json.loads is not caught.
parse_raises_only_decode(content) == content.kind = "undecodable"

\* json.loads(content.decode('utf-8')) raises inside load_json_from_drive's try:
\* decode on "undecodable", loads on "invalid_json".
parse_raises(content) == content.kind \in {"undecodable", "invalid_json"}

\* load_json_from_drive, from the result of download_file_from_drive on
\* (None or Some(bytes)): `if content:` is false for None and for zero bytes; an
\* exception of decode/loads is caught and gives the empty catalog.
load_result(downloaded) ==
    IF downloaded = None \/ downloaded[1].kind = "empty" THEN EmptyCatalog
    ELSE IF parse_raises(downloaded[1]) THEN EmptyCatalog
    ELSE [is_catalog |-> downloaded[1].kind = "catalog",
          graphics   |-> downloaded[1].graphics]

----------------------------------------------------------------------------
(* retry_api_call *)

max_retries == 3
delay == 1

\* any(keyword in error_str for keyword in ['ssl','timeout','connection','network'])
is_transient(e) == e \in {"ssl", "timeout", "connection", "network"}

----------------------------------------------------------------------------
(* Session state *)

FreshLoc ==
    [authenticated     |-> FALSE,
     entered           |-> "",     \* the password the gate accepted
     pc                |-> "idle",
     attempt           |-> 0,
     sleeps            |-> <<>>,
     form              |-> [uploaded_file |-> "", business |-> BlankBusiness],
     images_folder_id  |-> 0,
     image_data        |-> None,
     data              |-> EmptyCatalog,
     existing_file_id  |-> 0,
     existing_content  |-> None,
     backups_folder_id |-> 0,
     msg               |-> "",
     error             |-> "",
     dup_at_click      |-> FALSE]

\* What report_page rendered: nothing yet (page ""), the "Brak grafik" notice
\* ("empty"), the filtered list ("list"), or an exception that left the page
\* ("exception"). count is the number in "Znaleziono: N grafik" and divisor the
\* len(filtered_graphics) the averages were divided by; -1 when not rendered.
\* selected, sort_by and sort_order are the values the widgets held in the run
\* that rendered the list (the widgets' initial values when there is no list).
NoView ==
    [page |-> "", count |-> -1, divisor |-> -1, sum_ctr |-> 0, sum_roas |-> 0,
     rows |-> <<>>,
     selected |-> [rynek |-> {}, typ_odbiorcy |-> {}, typ_kampanii |-> {}],
     sort_by |-> "upload_date", sort_order |-> "Malejaco"]

Passwords == {"", "tajne", "inne"}

\* st.secrets: uploader_password at the top level and under google_service_account.
SecretsChoices ==
    { [top |-> "tajne", nested |-> ""],
      [top |-> "",      nested |-> "tajne"],
      [top |-> "",      nested |-> ""] }

\* The deployments the concurrent runs start from: a password configured, none.
ConcurrentSecrets ==
    { [top |-> "tajne", nested |-> ""],
      [top |-> "",      nested |-> ""] }

----------------------------------------------------------------------------
(* Steps of a session: shared pieces *)

Put(s, l) == loc' = [loc EXCEPT ![s] = l]

\* The Drive call of this step succeeds.
CallOk == faults' = faults

\* The Drive call of this step raises; the model allows `faults` of these.
CallFails == faults > 0 /\ faults' = faults - 1

\* The handler returns (or raised into uploader_page's `except Exception`): the
\* script run ends with `message` on the page, and its locals are gone. After
\* "success" data keeps the list that was saved (its last element is the
\* session's record), for the properties to read.
Finish(l, message, e) ==
    [FreshLoc EXCEPT !.authenticated = l.authenticated, !.entered = l.entered,
                     !.msg = message, !.error = e,
                     !.dup_at_click = l.dup_at_click,
                     !.data = IF message = "success" THEN l.data ELSE EmptyCatalog]

\* retry_api_call's except branch, func() having raised e on attempt l.attempt:
\* re-raise on the last attempt or on a non-transient error, else sleep
\* delay * (attempt + 1) and call func again (from `restart`).
retry_api_call(l, e, restart) ==
    IF l.attempt = max_retries - 1 THEN Finish(l, "exception", e)
    ELSE IF is_transient(e)
         THEN [l EXCEPT !.attempt = @ + 1,
                        !.sleeps = Append(@, delay * (l.attempt + 1)),
                        !.pc = restart, !.error = e]
         ELSE Finish(l, "exception", e)

\* A new retry_api_call begins at pc `first`.
Enter(l, first) == [l EXCEPT !.pc = first, !.attempt = 0, !.sleeps = <<>>, !.error = ""]

\* A record of this id is in some stored catalog file.
Stored(id) ==
    \E f \in 1..Len(catalog) :
        \E i \in 1..Len(catalog[f].graphics) : catalog[f].graphics[i].id = id

----------------------------------------------------------------------------
(* uploader_page: the password gate *)

\* correct_password: the top-level secret, else the one under google_service_account.
correct_password ==
    IF secrets.top # "" THEN secrets.top ELSE secrets.nested

\* `if password and correct_password and password == correct_password`
password_accepted(password, correct) ==
    password # "" /\ correct # "" /\ password = correct

\* 'Zaloguj', with `password` in the text input.
Login(s) ==
    /\ loc[s].pc = "idle"
    /\ ~loc[s].authenticated
    /\ \E password \in Passwords :
         IF password_accepted(password, correct_password)
         THEN Put(s, [FreshLoc EXCEPT !.authenticated = TRUE, !.entered = password])
         ELSE Put(s, [FreshLoc EXCEPT !.msg = IF correct_password = ""
                                              THEN "no_password_configured"
                                              ELSE "wrong_password"])
    /\ view' = [view EXCEPT ![s] = NoView]
    /\ UNCHANGED <<secrets, drive, clicks, faults, ratio_in, ratio_out>>

\* 'Wyloguj z uploadera' (shown only past the gate).
Logout(s) ==
    /\ loc[s].pc = "idle"
    /\ loc[s].authenticated
    /\ Put(s, FreshLoc)
    /\ view' = [view EXCEPT ![s] = NoView]
    /\ UNCHANGED <<secrets, drive, clicks, faults, ratio_in, ratio_out>>

\* The mutant: the form is shown to every session.
past_gate_always(s) == TRUE

\* uploader_page returns before the form unless session_state["authenticated"].
past_gate(s) == loc[s].authenticated

----------------------------------------------------------------------------
(* uploader_page: 'Dodaj grafikę' *)

\* The click. An incomplete form gets the "fill the fields" error; a complete
\* one starts retry_api_call(find_or_create_folder(.., "images")).
Click(s, forms) ==
    /\ loc[s].pc = "idle"
    /\ past_gate(s)
    /\ \E form \in forms :
         IF form.uploaded_file # "" /\ form.business.numer_akcji # ""
         THEN /\ clicks > 0
              /\ clicks' = clicks - 1
              /\ Put(s, [Enter(loc[s], "images_list") EXCEPT
                           !.form = form, !.msg = "", !.image_data = None,
                           !.data = EmptyCatalog,
                           !.dup_at_click = Stored(UploadedFile(form.uploaded_file).md5)])
         ELSE /\ clicks' = clicks
              /\ Put(s, Finish(loc[s], "fill_fields", ""))
    /\ view' = [view EXCEPT ![s] = NoView]
    /\ UNCHANGED <<secrets, drive, faults, ratio_in, ratio_out>>

\* find_or_create_folder(images): files().list. An exception reaches
\* retry_api_call, which calls find_or_create_folder again.
ImagesList(s) ==
    /\ loc[s].pc = "images_list"
    /\ \/ /\ CallOk
          /\ IF folders.images > 0
             THEN \E id \in 1..folders.images :
                    Put(s, [Enter(loc[s], "blob_upload") EXCEPT !.images_folder_id = id])
             ELSE Put(s, [loc[s] EXCEPT !.pc = "images_create", !.error = ""])
       \/ /\ CallFails
          /\ \E e \in Errors : Put(s, retry_api_call(loc[s], e, "images_list"))
    /\ UNCHANGED <<secrets, drive, view, clicks, ratio_in, ratio_out>>

\* find_or_create_folder(images): files().create of the folder.
ImagesCreate(s) ==
    /\ loc[s].pc = "images_create"
    /\ \/ /\ CallOk
          /\ folders' = [folders EXCEPT !.images = @ + 1]
          /\ Put(s, [Enter(loc[s], "blob_upload") EXCEPT
                       !.images_folder_id = folders.images + 1])
       \/ /\ CallFails
          /\ folders' = folders
          /\ \E e \in Errors : Put(s, retry_api_call(loc[s], e, "images_list"))
    /\ UNCHANGED <<secrets, blobs, catalog, backups, view, clicks, ratio_in, ratio_out>>

\* process_uploaded_image under retry_api_call: Image.open raises on a file PIL
\* cannot read (not transient: re-raised at once); upload_file_to_drive catches
\* its own exception and returns None, which ends the handler with an error.
\* A stored blob gives the record, and load_json_from_drive is next.
BlobUpload(s) ==
    /\ loc[s].pc = "blob_upload"
    /\ IF loc[s].form.uploaded_file \in BadImages
       THEN /\ CallOk
            /\ blobs' = blobs
            /\ Put(s, retry_api_call(loc[s], "cannot identify image file", "blob_upload"))
       ELSE \/ /\ CallOk
               /\ blobs' = Append(blobs, UploadedFile(loc[s].form.uploaded_file).md5)
               /\ Put(s, [Enter(loc[s], "load_find") EXCEPT
                            !.image_data =
                               Some(GraphicRecord(loc[s].form.uploaded_file,
                                                  Len(blobs) + 1, Len(blobs) + 1,
                                                  loc[s].form.business))])
            \/ /\ CallFails
               /\ blobs' = blobs
               /\ \E e \in Errors : Put(s, Finish(loc[s], "upload_error", e))
    /\ UNCHANGED <<secrets, folders, catalog, backups, view, clicks, ratio_in, ratio_out>>

\* The mutant: the scan finds nothing.
is_duplicate_never(record, graphics) == FALSE

\* existing_ids = [item["id"] for item in data["graphics"]];
\* image_data["id"] in existing_ids
is_duplicate(record, graphics) ==
    \E i \in 1..Len(graphics) : graphics[i].id = record.id

\* uploader_page from the value load_json_from_drive returned (`data`) to the
\* next Drive call: data["graphics"] raises on a value that is no catalog dict;
\* a duplicate id ends the handler with a warning; else the record is appended
\* and retry_api_call(save_json_to_drive) begins. e is the exception that
\* load_json_from_drive caught in this step, if any.
AfterLoad(l, data, e) ==
    IF ~data.is_catalog THEN Finish(l, "exception", e)
    ELSE IF is_duplicate(l.image_data[1], data.graphics)
         THEN Finish(l, "duplicate", e)
         ELSE [Enter(l, "save_find") EXCEPT
                 !.data = [data EXCEPT !.graphics = Append(@, l.image_data[1])],
                 !.error = e]

\* load_json_from_drive: find_file_in_folder. No file, or an exception (caught
\* inside load_json_from_drive), gives {"graphics": []}.
LoadFind(s) ==
    /\ loc[s].pc = "load_find"
    /\ \/ /\ CallOk
          /\ IF Len(catalog) > 0
             THEN \E f \in 1..Len(catalog) :
                    Put(s, [loc[s] EXCEPT !.pc = "load_download",
                                          !.existing_file_id = f, !.error = ""])
             ELSE Put(s, AfterLoad(loc[s], EmptyCatalog, ""))
       \/ /\ CallFails
          /\ \E e \in Errors : Put(s, AfterLoad(loc[s], EmptyCatalog, e))
    /\ UNCHANGED <<secrets, drive, view, clicks, ratio_in, ratio_out>>

\* load_json_from_drive: download_file_from_drive (None on an exception), then
\* the parse.
LoadDownload(s) ==
    /\ loc[s].pc = "load_download"
    /\ \/ /\ CallOk
          /\ Put(s, AfterLoad([loc[s] EXCEPT !.existing_file_id = 0],
                              load_result(Some(catalog[loc[s].existing_file_id])), ""))
       \/ /\ CallFails
          /\ \E e \in Errors :
               Put(s, AfterLoad([loc[s] EXCEPT !.existing_file_id = 0],
                                load_result(None), e))
    /\ UNCHANGED <<secrets, drive, view, clicks, ratio_in, ratio_out>>

----------------------------------------------------------------------------
(* save_json_to_drive, under retry_api_call. Every exception is caught inside  *)
(* save_json_to_drive, which then returns False: retry_api_call sees none.     *)

\* find_file_in_folder: the file to overwrite, if any.
SaveFind(s) ==
    /\ loc[s].pc = "save_find"
    /\ \/ /\ CallOk
          /\ IF Len(catalog) > 0
             THEN \E f \in 1..Len(catalog) :
                    Put(s, [loc[s] EXCEPT !.pc = "save_download",
                                          !.existing_file_id = f, !.error = ""])
             ELSE Put(s, [loc[s] EXCEPT !.pc = "save_write", !.error = ""])
       \/ /\ CallFails
          /\ \E e \in Errors : Put(s, Finish(loc[s], "save_error", e))
    /\ UNCHANGED <<secrets, drive, view, clicks, ratio_in, ratio_out>>

\* `if existing_content:`: not None and not zero bytes.
wants_backup(existing_content) ==
    existing_content # None /\ existing_content[1].kind # "empty"

\* download_file_from_drive(existing_file_id): None on an exception. Without
\* content to back up the save goes straight to the write.
SaveDownload(s) ==
    /\ loc[s].pc = "save_download"
    /\ \/ /\ CallOk
          /\ LET got == Some(catalog[loc[s].existing_file_id]) IN
               Put(s, [loc[s] EXCEPT
                         !.existing_content = got, !.error = "",
                         !.pc = IF wants_backup(got) THEN "backups_list"
                                ELSE "save_write"])
       \/ /\ CallFails
          /\ \E e \in Errors :
               Put(s, [loc[s] EXCEPT !.existing_content = None, !.error = e,
                                     !.pc = "save_write"])
    /\ UNCHANGED <<secrets, drive, view, clicks, ratio_in, ratio_out>>

\* find_or_create_folder(backups): files().list.
BackupsList(s) ==
    /\ loc[s].pc = "backups_list"
    /\ \/ /\ CallOk
          /\ IF folders.backups > 0
             THEN \E id \in 1..folders.backups :
                    Put(s, [loc[s] EXCEPT !.pc = "backup_upload",
                                          !.backups_folder_id = id, !.error = ""])
             ELSE Put(s, [loc[s] EXCEPT !.pc = "backups_create", !.error = ""])
       \/ /\ CallFails
          /\ \E e \in Errors : Put(s, Finish(loc[s], "save_error", e))
    /\ UNCHANGED <<secrets, drive, view, clicks, ratio_in, ratio_out>>

\* find_or_create_folder(backups): files().create of the folder.
BackupsCreate(s) ==
    /\ loc[s].pc = "backups_create"
    /\ \/ /\ CallOk
          /\ folders' = [folders EXCEPT !.backups = @ + 1]
          /\ Put(s, [loc[s] EXCEPT !.pc = "backup_upload",
                                   !.backups_folder_id = folders.backups + 1,
                                   !.error = ""])
       \/ /\ CallFails
          /\ folders' = folders
          /\ \E e \in Errors : Put(s, Finish(loc[s], "save_error", e))
    /\ UNCHANGED <<secrets, blobs, catalog, backups, view, clicks, ratio_in, ratio_out>>

\* upload_file_to_drive(existing_content, backup_filename, backups_folder_id):
\* it catches its own exception and its result is not looked at.
BackupUpload(s) ==
    /\ loc[s].pc = "backup_upload"
    /\ \/ /\ CallOk
          /\ backups' = backups \cup {loc[s].existing_content[1]}
          /\ Put(s, [loc[s] EXCEPT !.pc = "save_write", !.error = ""])
       \/ /\ CallFails
          /\ backups' = backups
          /\ \E e \in Errors : Put(s, [loc[s] EXCEPT !.pc = "save_write", !.error = e])
    /\ UNCHANGED <<secrets, folders, blobs, catalog, view, clicks, ratio_in, ratio_out>>

\* The mutant: the write keeps the records the file holds and adds the new one.
written_content_merged(data, old) ==
    IF old.kind = "catalog"
    THEN Content("catalog", Append(old.graphics, data.graphics[Len(data.graphics)]))
    ELSE json_dumps(data)

\* files().update(fileId=existing_file_id, media_body=json of data): the file's
\* content becomes the session's list, whatever the file (`old`) holds by now.
written_content(data, old) == json_dumps(data)

\* The write: update of the file found, or create of a new file. True gives
\* "Grafika została dodana!", an exception False and the save error.
SaveWrite(s) ==
    /\ loc[s].pc = "save_write"
    /\ \/ /\ CallOk
          /\ catalog' =
               IF loc[s].existing_file_id # 0
               THEN [catalog EXCEPT ![loc[s].existing_file_id] =
                        written_content(loc[s].data, @)]
               ELSE Append(catalog, json_dumps(loc[s].data))
          /\ Put(s, Finish(loc[s], "success", ""))
       \/ /\ CallFails
          /\ catalog' = catalog
          /\ \E e \in Errors : Put(s, Finish(loc[s], "save_error", e))
    /\ UNCHANGED <<secrets, folders, blobs, backups, view, clicks, ratio_in, ratio_out>>

\* One step of session s on the uploader page.
UploaderStep(s, forms) ==
    \/ Login(s)
    \/ Logout(s)
    \/ Click(s, forms)
    \/ ImagesList(s)
    \/ ImagesCreate(s)
    \/ BlobUpload(s)
    \/ LoadFind(s)
    \/ LoadDownload(s)
    \/ SaveFind(s)
    \/ SaveDownload(s)
    \/ BackupsList(s)
    \/ BackupsCreate(s)
    \/ BackupUpload(s)
    \/ SaveWrite(s)

----------------------------------------------------------------------------
(* report_page *)

SortKeys == {"upload_date", "ctr", "roas", "filename", "numer_akcji"}

\* "Malejąco" (descending) and "Rosnąco" (ascending), in ASCII.
SortOrders == {"Malejaco", "Rosnaco"}

\* Python compares the strings of filename and numer_akcji code point by code
\* point; the position in this ascending list stands for the string.
StringOrder == <<"", "A1", "A2", "A3", "a.png", "b.jpg", "c.png", "x.gif">>

string_rank(str) == CHOOSE i \in 1..Len(StringOrder) : StringOrder[i] = str

\* The key= of each filtered_graphics.sort(...).
sort_key(g, sort_by) ==
    CASE sort_by = "upload_date" -> g.upload_date
      [] sort_by = "ctr"         -> g.business.ctr
      [] sort_by = "roas"        -> g.business.roas
      [] sort_by = "numer_akcji" -> string_rank(g.business.numer_akcji)
      [] OTHER                   -> string_rank(g.filename)

\* list.sort is stable, also with reverse=True: x moves in front of y only when
\* its key is strictly smaller (reverse: strictly greater).
RECURSIVE insert_sorted(_, _, _, _)
insert_sorted(out, x, sort_by, reverse) ==
    IF out = <<>> THEN <<x>>
    ELSE IF (IF reverse
             THEN sort_key(x, sort_by) > sort_key(Head(out), sort_by)
             ELSE sort_key(x, sort_by) < sort_key(Head(out), sort_by))
         THEN <<x>> \o out
         ELSE <<Head(out)>> \o insert_sorted(Tail(out), x, sort_by, reverse)

RECURSIVE sort_from(_, _, _, _)
sort_from(out, rest, sort_by, reverse) ==
    IF rest = <<>> THEN out
    ELSE sort_from(insert_sorted(out, Head(rest), sort_by, reverse), Tail(rest),
                   sort_by, reverse)

\* The mutant: the sort ignores reverse= and is always ascending.
list_sort_ignores_reverse(graphics, sort_by, reverse) ==
    sort_from(<<>>, graphics, sort_by, FALSE)

list_sort(graphics, sort_by, reverse) == sort_from(<<>>, graphics, sort_by, reverse)

\* The options of the three multiselects: the values present in the catalog.
rynki(graphics) == {graphics[i].business.rynek : i \in 1..Len(graphics)}
typy_odbiorcy(graphics) == {graphics[i].business.typ_odbiorcy : i \in 1..Len(graphics)}
typy_kampanii(graphics) == {graphics[i].business.typ_kampanii : i \in 1..Len(graphics)}

\* The list comprehension that filters by the three selections.
filter_graphics(graphics, selected_rynek, selected_typ_odbiorcy, selected_typ_kampanii) ==
    LET keep(g) == /\ g.business.rynek \in selected_rynek
                   /\ g.business.typ_odbiorcy \in selected_typ_odbiorcy
                   /\ g.business.typ_kampanii \in selected_typ_kampanii
    IN SelectSeq(graphics, keep)

RECURSIVE sum_of(_, _)
sum_of(graphics, field) ==
    IF graphics = <<>> THEN 0
    ELSE (IF field = "ctr" THEN Head(graphics).business.ctr
          ELSE Head(graphics).business.roas) + sum_of(Tail(graphics), field)

\* The mutant: the averages are computed for every filtered list.
computes_averages_always(filtered_graphics) == TRUE

\* `if filtered_graphics:` in front of the two divisions by len(filtered_graphics).
computes_averages(filtered_graphics) == filtered_graphics # <<>>

\* `if not graphics:` shows "Brak grafik w bazie" and returns.
shows_notice(graphics) == graphics = <<>>

\* What report_page renders from the value load_json_from_drive returned and the
\* widgets' values (selected: the three multiselects). The averages are
\* sum / divisor.
render_report(data, selected, sort_by, sort_order) ==
    IF ~data.is_catalog THEN [NoView EXCEPT !.page = "exception"]
    ELSE IF shows_notice(data.graphics) THEN [NoView EXCEPT !.page = "empty"]
    ELSE LET filtered_graphics ==
                 list_sort(filter_graphics(data.graphics, selected.rynek,
                                           selected.typ_odbiorcy, selected.typ_kampanii),
                           sort_by, sort_order = "Malejaco")
             averaged == computes_averages(filtered_graphics)
         IN [page     |-> "list",
             count    |-> Len(filtered_graphics),
             divisor  |-> IF averaged THEN Len(filtered_graphics) ELSE -1,
             sum_ctr  |-> IF averaged THEN sum_of(filtered_graphics, "ctr") ELSE 0,
             sum_roas |-> IF averaged THEN sum_of(filtered_graphics, "roas") ELSE 0,
             rows     |-> [i \in 1..Len(filtered_graphics) |-> filtered_graphics[i].id],
             selected |-> selected, sort_by |-> sort_by, sort_order |-> sort_order]

\* The catalog as one run of report_page gets it from load_json_from_drive: of one
\* of the files of that name, or {"graphics": []} when there is none.
ReportData(f) == IF f = 0 THEN EmptyCatalog ELSE load_result(Some(catalog[f]))

\* The values a multiselect may hold: its default (every option), or any choice.
Selections(options, defaults) == IF defaults THEN {options} ELSE SUBSET options

\* One run of the report page: load_json_from_drive (its Drive calls only read,
\* and a failure of either gives the empty catalog), then the widgets with the
\* values the user left in them, the filter, the sort and the rendering. With
\* `defaults` the widgets hold their defaults: everything selected, upload_date,
\* "Malejąco".
ReportPage(s, defaults) ==
    /\ loc[s].pc = "idle"
    /\ \/ /\ CallOk
          /\ \E f \in (IF Len(catalog) = 0 THEN {0} ELSE 1..Len(catalog)) :
               LET data == ReportData(f)
                   graphics == IF data.is_catalog THEN data.graphics ELSE <<>>
               IN \E selected_rynek \in Selections(rynki(graphics), defaults),
                     selected_typ_odbiorcy \in Selections(typy_odbiorcy(graphics), defaults),
                     selected_typ_kampanii \in Selections(typy_kampanii(graphics), defaults),
                     sort_by \in (IF defaults THEN {"upload_date"} ELSE SortKeys),
                     sort_order \in (IF defaults THEN {"Malejaco"} ELSE SortOrders) :
                    view' = [view EXCEPT ![s] =
                               render_report(data,
                                             [rynek        |-> selected_rynek,
                                              typ_odbiorcy |-> selected_typ_odbiorcy,
                                              typ_kampanii |-> selected_typ_kampanii],
                                             sort_by, sort_order)]
       \/ /\ CallFails
          /\ view' = [view EXCEPT ![s] =
                        render_report(EmptyCatalog,
                                      [rynek |-> {}, typ_odbiorcy |-> {}, typ_kampanii |-> {}],
                                      "upload_date", "Malejaco")]
    /\ UNCHANGED <<secrets, drive, loc, clicks, ratio_in, ratio_out>>

----------------------------------------------------------------------------
(* calculate_ratio, applied to every size up to MaxDim x MaxDim *)

Classify ==
    /\ \E width \in 1..MaxDim, height \in 1..MaxDim :
         /\ ratio_in' = <<width, height>>
         /\ ratio_out' = calculate_ratio(width, height)
    /\ UNCHANGED <<secrets, drive, loc, view, clicks, faults>>

----------------------------------------------------------------------------
(* Specifications *)

EmptyDrive ==
    /\ folders = [images |-> 0, backups |-> 0]
    /\ blobs = <<>>
    /\ catalog = <<>>
    /\ backups = {}

NoRatio ==
    /\ ratio_in = <<1, 1>>
    /\ ratio_out = ""

\* Concurrent sessions on an empty Drive folder.
Init ==
    /\ secrets \in ConcurrentSecrets
    /\ EmptyDrive
    /\ loc = [s \in Sessions |-> FreshLoc]
    /\ view = [s \in Sessions |-> NoView]
    /\ clicks = MaxClicks
    /\ faults = MaxFaults
    /\ NoRatio

Next == \E s \in Sessions : UploaderStep(s, ConcurrentForms)

Spec == Init /\ [][Next]_vars

\* One session working alone, on a Drive folder whose catalog file is absent,
\* corrupt, or holds no record yet.
InitSolo ==
    /\ secrets \in SecretsChoices
    /\ folders = [images |-> 0, backups |-> 0]
    /\ blobs = <<>>
    /\ catalog \in {<<>>} \cup {<<Content(k, <<>>)>> : k \in CorruptKinds \cup {"catalog"}}
    /\ backups = {}
    /\ loc = [s \in Sessions |-> FreshLoc]
    /\ view = [s \in Sessions |-> NoView]
    /\ clicks = MaxClicksSolo
    /\ faults = MaxFaultsSolo
    /\ NoRatio

NextSolo == UploaderStep("s1", Forms) \/ ReportPage("s1", TRUE)

SpecSolo == InitSolo /\ [][NextSolo]_vars

\* The records the report is checked on: two of them share their upload_date,
\* and the business values differ.
ReportRecords ==
    << [id |-> "hashA", filename |-> "a.png", drive_file_id |-> 1, upload_date |-> 1,
        ratio |-> "1:1", business |-> Business1],
       [id |-> "hashB", filename |-> "b.jpg", drive_file_id |-> 2, upload_date |-> 1,
        ratio |-> "16:9", business |-> Business2],
       [id |-> "hashC", filename |-> "c.png", drive_file_id |-> 3, upload_date |-> 2,
        ratio |-> "4:3",
        business |-> [numer_akcji |-> "A3", rynek |-> "medica", typ_odbiorcy |-> "warm",
                      typ_kampanii |-> "leads", ctr |-> 0, roas |-> 250]] >>

\* Lists of at most MaxCatalog of these records, no record twice, in any order.
ReportCatalogs ==
    { graphics \in UNION { [1..n -> Range(ReportRecords)] : n \in 0..MaxCatalog } :
        \A i, j \in 1..Len(graphics) : i # j => graphics[i] # graphics[j] }

\* The report page over every stored catalog: no file, a corrupt file, or a list
\* of records.
InitReport ==
    /\ secrets = [top |-> "tajne", nested |-> ""]
    /\ folders = [images |-> 1, backups |-> 0]
    /\ blobs = <<>>
    /\ catalog \in {<<>>} \cup {<<Content(k, <<>>)>> : k \in CorruptKinds}
                   \cup {<<Content("catalog", g)>> : g \in ReportCatalogs}
    /\ backups = {}
    /\ loc = [s \in Sessions |-> FreshLoc]
    /\ view = [s \in Sessions |-> NoView]
    /\ clicks = 0
    /\ faults = MaxFaults
    /\ NoRatio

NextReport == ReportPage("s1", FALSE)

SpecReport == InitReport /\ [][NextReport]_vars

\* The classifier on its own.
InitRatio ==
    /\ secrets = [top |-> "tajne", nested |-> ""]
    /\ EmptyDrive
    /\ loc = [s \in Sessions |-> FreshLoc]
    /\ view = [s \in Sessions |-> NoView]
    /\ clicks = 0
    /\ faults = 0
    /\ NoRatio

NextRatio == Classify

SpecRatio == InitRatio /\ [][NextRatio]_vars

----------------------------------------------------------------------------
(* Properties *)

Ids(content) == {content.graphics[i].id : i \in 1..Len(content.graphics)}

\* The record a session saved with its last upload, and the list it had loaded.
SavedRecord(s) == loc[s].data.graphics[Len(loc[s].data.graphics)]
LoadedList(s) == SubSeq(loc[s].data.graphics, 1, Len(loc[s].data.graphics) - 1)
Succeeded(s) == loc[s].pc = "idle" /\ loc[s].msg = "success"

\* C1: a save that overwrites an existing catalog file makes the new content
\* visible only after a backup equal to the prior catalog content was stored,
\* also when the download of the prior content or the backup's upload fails.
\* (Stated for prior contents that are catalogs.)
C1_BackupBeforeOverwrite ==
    [][\A f \in 1..Len(catalog) :
         (catalog[f].kind = "catalog" /\ catalog'[f] # catalog[f])
            => catalog[f] \in backups]_vars

\* C2: once an image's record is stored in the catalog, a later upload of the same
\* bytes appends no record, starts no save and does not succeed, also when a
\* storage call of that upload fails.
C2_DuplicateRejected ==
    \A s \in Sessions :
        loc[s].dup_at_click =>
            /\ loc[s].pc \notin {"save_find", "save_download", "backups_list",
                                 "backups_create", "backup_upload", "save_write"}
            /\ loc[s].msg # "success"

\* C3: no stored catalog file holds two records of the same id, whatever the
\* sessions do and however their steps interleave.
C3_UniqueIds ==
    \A f \in 1..Len(catalog) :
        \A i, j \in 1..Len(catalog[f].graphics) :
            i # j => catalog[f].graphics[i].id # catalog[f].graphics[j].id

\* C3's case: both sessions have uploaded, and one file holds both records.
C3_Witness ==
    /\ \A s \in Sessions : Succeeded(s)
    /\ \E f \in 1..Len(catalog) : Len(catalog[f].graphics) = 2

\* C4: for one session uploading one image after another, a record of a stored
\* catalog is in every later content of that file, unchanged, also when storage
\* calls of a later upload fail.
C4_RecordsKept ==
    [][\A f \in 1..Len(catalog) :
         \A i \in 1..Len(catalog[f].graphics) :
            \E j \in 1..Len(catalog'[f].graphics) :
                catalog'[f].graphics[j] = catalog[f].graphics[i]]_vars

\* C5: a Drive call of an upload that fails with a transient error is made again
\* by retry_api_call, after delay * 1 and then delay * 2, three attempts in all;
\* a non-transient error, and a transient one on the third attempt, is re-raised
\* and ends the upload with the failure shown.
C5_TransientRetried ==
    [][\A s \in Sessions :
         (loc[s].pc # "idle" /\ loc'[s] # loc[s] /\ faults' < faults) =>
            IF is_transient(loc'[s].error) /\ loc[s].attempt < max_retries - 1
            THEN /\ loc'[s].attempt = loc[s].attempt + 1
                 /\ loc'[s].sleeps = Append(loc[s].sleeps, delay * (loc[s].attempt + 1))
                 /\ loc'[s].pc # "idle"
            ELSE /\ loc'[s].pc = "idle"
                 /\ loc'[s].msg = "exception"]_vars

\* C6: two sessions that uploaded different images from the same loaded list and
\* both got "success" are never both in a stored catalog file: the write of one
\* replaced, or went beside, the write of the other.
C6_LostUpdate ==
    \A s, t \in Sessions :
        (/\ s # t
         /\ Succeeded(s) /\ Succeeded(t)
         /\ LoadedList(s) = LoadedList(t)
         /\ SavedRecord(s).id # SavedRecord(t).id)
        => \A f \in 1..Len(catalog) :
              ~ (/\ SavedRecord(s) \in Range(catalog[f].graphics)
                 /\ SavedRecord(t) \in Range(catalog[f].graphics))

\* C6's case: both sessions loaded the same list, passed the duplicate check and
\* report success, and the one catalog file holds the later write, without the
\* other session's record.
C6_Witness ==
    \E s, t \in Sessions :
        /\ s # t
        /\ Succeeded(s) /\ Succeeded(t)
        /\ LoadedList(s) = LoadedList(t)
        /\ SavedRecord(s).id # SavedRecord(t).id
        /\ Len(catalog) = 1
        /\ catalog[1].graphics = loc[t].data.graphics
        /\ SavedRecord(s) \notin Range(catalog[1].graphics)

\* Contents json.loads(content.decode('utf-8')) cannot read, and zero bytes.
Unreadable == {"empty", "undecodable", "invalid_json"}

\* What C7 says of stored contents of the given kinds: an upload that downloads
\* one goes on as with the empty catalog (its record becomes the whole list and
\* the save begins), and the report page run on one shows the "Brak grafik"
\* notice, with no exception from data["graphics"].
TreatedAsEmpty(kinds) ==
    \A s \in Sessions :
        /\ (/\ loc[s].pc = "load_download"
            /\ loc'[s] # loc[s]
            /\ faults' = faults
            /\ catalog[loc[s].existing_file_id].kind \in kinds)
           => /\ loc'[s].pc = "save_find"
              /\ loc'[s].data = [is_catalog |-> TRUE, graphics |-> loc[s].image_data]
        /\ (/\ view'[s] # view[s]
            /\ view'[s].page # ""
            /\ Len(catalog) > 0
            /\ \A f \in 1..Len(catalog) : catalog[f].kind \in kinds)
           => view'[s].page = "empty"

Nearest(width, height) ==
    {i \in 1..Len(standard_ratios) :
        \A j \in 1..Len(standard_ratios) :
            ratio_distance(i, width, height) <= ratio_distance(j, width, height)}

FirstOf(indices) == CHOOSE i \in indices : \A j \in indices : i <= j

\* C8: calculate_ratio returns the label of a table entry at minimum absolute
\* difference from width / height, the first such entry in the table's order
\* 1:1, 5:4, 4:3, 3:2, 16:10, 16:9, 2:1, 4:5, 3:4, 2:3, 10:16, 9:16, 1:2.
C8_NearestFirst ==
    /\ [i \in 1..Len(standard_ratios) |-> standard_ratios[i].label]
         = <<"1:1", "5:4", "4:3", "3:2", "16:10", "16:9", "2:1",
             "4:5", "3:4", "2:3", "10:16", "9:16", "1:2">>
    /\ ratio_out # "" =>
         ratio_out = standard_ratios[FirstOf(Nearest(ratio_in[1], ratio_in[2]))].label

\* C8's case: a size with two entries equally close (9:8 lies midway between 1:1
\* and 5:4), classified.
C8_Witness ==
    /\ ratio_out # ""
    /\ Cardinality(Nearest(ratio_in[1], ratio_in[2])) > 1

\* One step, as C9 allows it: the flag turns true only for a non-empty password
\* equal to the configured, non-empty one, and false only from the idle page;
\* a step that writes to the Drive is the step of an authenticated session; and
\* no step changes the flag of two sessions.
GateStep ==
    \A s \in Sessions :
        /\ (~loc[s].authenticated /\ loc'[s].authenticated)
             => /\ loc'[s].entered # ""
                /\ correct_password # ""
                /\ loc'[s].entered = correct_password
        /\ (loc[s].authenticated /\ ~loc'[s].authenticated) => loc[s].pc = "idle"
        /\ (loc'[s] # loc[s] /\ drive' # drive) => loc[s].authenticated
        /\ \A t \in Sessions \ {s} :
             loc'[s].authenticated # loc[s].authenticated
                => loc'[t].authenticated = loc[t].authenticated

\* C9: 'authenticated' starts false in every session, changes only by that
\* session's Zaloguj (with the right password) and Wyloguj, and no session whose
\* flag is false writes to the Drive.
C9_PasswordGate ==
    /\ \A s \in Sessions : ~loc[s].authenticated
    /\ [][GateStep]_vars

\* C9's case: one session logged in and saved a catalog, the other did not get
\* past the gate.
C9_Witness ==
    \E s, t \in Sessions :
        /\ loc[s].authenticated /\ Succeeded(s)
        /\ ~loc[t].authenticated /\ loc[t].msg = "wrong_password"
        /\ Len(catalog) > 0

\* The catalog the report page reads holds no record (or there is no file).
CatalogEmpty ==
    \A f \in 1..Len(catalog) : catalog[f] = Content("catalog", <<>>)

\* The averages are never divided by zero.
NoZeroDivisor == \A s \in Sessions : view[s].divisor # 0

\* C10 as amended: the divisor len(filtered_graphics) is never zero, for every
\* catalog and selection; a rendered list shows the count of its rows and its
\* averages exactly when there are rows; and with an empty catalog the page
\* shows the "Brak grafik" notice and neither a count nor an average.
C10_NoDivisionNoticeWhenEmpty ==
    /\ NoZeroDivisor
    /\ \A s \in Sessions :
         /\ view[s].page = "list" =>
              /\ view[s].count = Len(view[s].rows)
              /\ view[s].divisor = (IF view[s].count > 0 THEN view[s].count ELSE -1)
              /\ ~CatalogEmpty
         /\ (CatalogEmpty /\ view[s].page # "") =>
              /\ view[s].page = "empty"
              /\ view[s].count = -1
              /\ view[s].divisor = -1

\* C10 as claimed: no division by zero, and with an empty catalog the page shows
\* a count of zero matching graphics.
C10_EmptyShowsZero ==
    /\ NoZeroDivisor
    /\ \A s \in Sessions :
         (CatalogEmpty /\ view[s].page # "") => view[s].count = 0

\* C10's case: a catalog with records, and a selection that matches none of
\* them: the count shown is zero and no average was computed.
C10_Witness ==
    /\ ~CatalogEmpty
    /\ view["s1"].page = "list"
    /\ view["s1"].count = 0
    /\ view["s1"].divisor = -1

\* The list of the stored catalog file the report page reads (SpecReport keeps
\* at most one file of that name).
StoredGraphics ==
    IF Len(catalog) = 0 \/ catalog[1].kind # "catalog" THEN <<>> ELSE catalog[1].graphics

\* The view v is the list with every available filter value selected, sorted by
\* upload_date in the given order.
FullListByDate(v, sort_order) ==
    /\ v.page = "list"
    /\ v.sort_by = "upload_date"
    /\ v.sort_order = sort_order
    /\ v.selected = [rynek        |-> rynki(StoredGraphics),
                     typ_odbiorcy |-> typy_odbiorcy(StoredGraphics),
                     typ_kampanii |-> typy_kampanii(StoredGraphics)]

Reverse(seq) == [i \in 1..Len(seq) |-> seq[Len(seq) + 1 - i]]

\* The user switches the order of the full list by upload_date, from ascending
\* to descending or back.
OrderSwitched(s) ==
    \/ FullListByDate(view[s], "Rosnaco") /\ FullListByDate(view[s], "Malejaco")'
    \/ FullListByDate(view[s], "Malejaco") /\ FullListByDate(view[s], "Rosnaco")'

\* No two records of the stored catalog have the same upload_date.
DistinctDates ==
    \A i, j \in 1..Len(StoredGraphics) :
        i # j => StoredGraphics[i].upload_date # StoredGraphics[j].upload_date

\* The place of the record of this id in the stored catalog.
PlaceOf(id) == CHOOSE i \in 1..Len(StoredGraphics) : StoredGraphics[i].id = id

\* rows holds every record of the catalog once, by upload_date in the order of
\* the view, and records of equal upload_date in the catalog's order.
TiesInCatalogOrder(v) ==
    /\ Len(v.rows) = Len(StoredGraphics)
    /\ Range(v.rows) = {StoredGraphics[i].id : i \in 1..Len(StoredGraphics)}
    /\ \A i, j \in 1..Len(v.rows) :
         i < j =>
           LET a == StoredGraphics[PlaceOf(v.rows[i])]
               b == StoredGraphics[PlaceOf(v.rows[j])]
           IN IF a.upload_date = b.upload_date
              THEN PlaceOf(a.id) < PlaceOf(b.id)
              ELSE IF v.sort_order = "Malejaco"
                   THEN a.upload_date > b.upload_date
                   ELSE a.upload_date < b.upload_date

\* C11 as amended: with every filter value selected, the list by upload_date
\* descending is the reverse of the list ascending for every catalog whose
\* upload_dates are pairwise distinct; in both orders the records of equal
\* upload_date stand in the order of the catalog (the sort is stable, also in
\* reverse), so with a tie the one list is not the reverse of the other.
C11_ReverseUpToTies ==
    [][\A s \in Sessions :
          /\ FullListByDate(view[s], view[s].sort_order)' => TiesInCatalogOrder(view[s])'
          /\ OrderSwitched(s) =>
                IF DistinctDates THEN view'[s].rows = Reverse(view[s].rows)
                ELSE Len(StoredGraphics) = 2 => view'[s].rows = view[s].rows]_vars

\* C11 as claimed: for every catalog, equal upload_dates included, the full
\* list by upload_date descending is the reverse of the list ascending.
C11_DescendingIsReverse ==
    [][\A s \in Sessions :
          OrderSwitched(s) => view'[s].rows = Reverse(view[s].rows)]_vars

\* C11's case: a catalog of two records of equal upload_date, fully selected and
\* listed by upload_date descending: the rows are in the catalog's order.
C11_Witness ==
    /\ Len(StoredGraphics) = 2 /\ ~DistinctDates
    /\ FullListByDate(view["s1"], "Malejaco")
    /\ view["s1"].rows = <<StoredGraphics[1].id, StoredGraphics[2].id>>


\* The step in which the upload action of session s, having stored its image
\* blob, ends with the success message, the duplicate warning or the save error.
FinishesUpload(s) ==
    /\ loc[s].pc # "idle"
    /\ loc[s].image_data # None
    /\ loc'[s].pc = "idle"
    /\ loc'[s].msg \in {"success", "duplicate", "save_error"}

\* Some record of a catalog file among `files` has this drive_file_id.
Referenced(files, drive_file_id) ==
    \E f \in 1..Len(files) :
        /\ files[f].kind = "catalog"
        /\ \E i \in 1..Len(files[f].graphics) :
               files[f].graphics[i].drive_file_id = drive_file_id

\* C12: when an upload action ends (success, duplicate warning or save error),
\* the image blob it stored is referenced by the drive_file_id of a record of
\* the saved catalog, and an action that ends with the duplicate warning or the
\* save error has left no blob of its own in the 'images' folder.
C12_NoOrphanBlobs ==
    [][\A s \in Sessions :
          FinishesUpload(s) =>
            LET drive_file_id == loc[s].image_data[1].drive_file_id IN
              /\ drive_file_id \in DOMAIN blobs' => Referenced(catalog', drive_file_id)
              /\ loc'[s].msg \in {"duplicate", "save_error"}
                    => drive_file_id \notin DOMAIN blobs']_vars

====
